---- MODULE Spec2Model ----
(***************************************************************************)
(* Two Arduino sketches that poll an analog pin and report over Serial:    *)
(*   standalone  src/Water_level_rain_on-off.ino  (water level, rain/no    *)
(*               rain, 500 ms)                                             *)
(*   combined    src/unnamed/part_000  (photoresistor raw value, 100 ms,   *)
(*               then water level rain/no rain, 500 ms)                    *)
(* The program state is sensorPin, sensorValue, the Serial port and the    *)
(* position in setup()/loop().  now and trace are what a clock and a       *)
(* serial monitor attached to the board observe.                           *)
(*                                                                         *)
(* The combined sketch defines the global sensorPin twice (A2, then A1)    *)
(* and declares the local sensorValue twice in loop().  Both analogRead    *)
(* calls name sensorPin, so whichever definition the name is bound to,     *)
(* both reads target that one pin: the binding is a choice made in Init.   *)
(* sensorValue is one name, hence one slot, initialised twice.             *)
(***************************************************************************)
EXTENDS Integers, Sequences, FiniteSets, TLC

MaxIter == 3                 \* iterations kept in the observation window

Samples == {5, 10, 11, 15}   \* readings used when whole runs are observed

ADCMax == 1023               \* analogRead returns 0..1023 (10-bit ADC)

ADCRange == 0..ADCMax

Threshold == 10

Baud == 9600

PhotoDelayMs == 100

WaterDelaySame == PhotoDelayMs

WaterDelayMs == 500

NoValue == -1                \* sensorValue outside the body of loop()

RainText == <<"r", "a", "i", "n">>

NoRainText == <<"n", "o", " ", "r", "a", "i", "n">>

VARIABLES sketch, pc, sensorPin, sensorValue, serial, now, trace

vars == <<sketch, pc, sensorPin, sensorValue, serial, now, trace>>

-----------------------------------------------------------------------------
(* Helpers *)

Sketches == {"standalone", "combined"}

\* the pin(s) the name sensorPin can be bound to
PinBindings(sk) == IF sk = "standalone" THEN {"A2"} ELSE {"A2", "A1"}

\* first statement of loop()
LoopEntry(sk) == IF sk = "standalone" THEN "read" ELSE "photoRead"

AfterLoopHalt(sk) == "halt"

\* loop() returns and is entered again
AfterLoop(sk) == LoopEntry(sk)

SerialBeginOmitted(s, b) == s

\* Serial.begin(b)
SerialBegin(s, b) == [open |-> TRUE, baud |-> b, begins |-> s.begins + 1]

ClassifyNonStrict(v) == IF v >= Threshold THEN RainText ELSE NoRainText

ClassifyLatched(v) ==
    IF v > Threshold
       \/ \E i \in 1..Len(trace) : trace[i].ev = "line" /\ trace[i].text = RainText
    THEN RainText ELSE NoRainText

\* if (sensorValue > 10) "rain" else "no rain"
Classify(v) == IF v > Threshold THEN RainText ELSE NoRainText

Digit(d) == <<"0", "1", "2", "3", "4", "5", "6", "7", "8", "9">>[d + 1]

RECURSIVE Decimal(_)
\* decimal digits of a non-negative int, most significant first
Decimal(n) == IF n < 10 THEN <<Digit(n)>>
              ELSE Append(Decimal(n \div 10), Digit(n % 10))

PrintIntScaled(v) == Decimal(v \div 4)

\* the text Serial.println(sensorValue) writes for an int
PrintInt(v) == Decimal(v)

ReadEv(st, pin, v, t) == [ev |-> "read", step |-> st, pin |-> pin, value |-> v, t |-> t]

LineEv(st, txt, t) == [ev |-> "line", step |-> st, text |-> txt, t |-> t]

DelayEv(st, ms, t) == [ev |-> "delay", step |-> st, ms |-> ms, t |-> t]

PrintlnIfChanged(tr, st, txt, t) ==
    IF \E i \in 1..Len(tr) :
          /\ tr[i].ev = "line" /\ tr[i].step = st /\ tr[i].text = txt
          /\ \A j \in (i+1)..Len(tr) : ~(tr[j].ev = "line" /\ tr[j].step = st)
    THEN tr
    ELSE Append(tr, LineEv(st, txt, t))

\* Serial.println(...): one line on the serial output
Println(tr, st, txt, t) == Append(tr, LineEv(st, txt, t))

ElapseNonBlocking(t, ms) == t

\* delay(ms) blocks the only thread for ms milliseconds
Elapse(t, ms) == t + ms

EndOfScopeStatic(v) == v

\* the local sensorValue ends with the body of loop()
EndOfScope(v) == NoValue

LinesPerIter == IF sketch = "standalone" THEN 1 ELSE 2

NumLines == Cardinality({i \in 1..Len(trace) : trace[i].ev = "line"})

\* the observation window holds W iterations; a read that finds it full
\* starts a new window
WindowFull(W) == NumLines >= LinesPerIter * W

Window(W) == IF WindowFull(W) THEN <<>> ELSE trace

Clock(W) == IF WindowFull(W) THEN 0 ELSE now

-----------------------------------------------------------------------------
(* State after reset *)

Init ==
    /\ sketch \in Sketches
    /\ pc = "setup"
    /\ sensorPin \in PinBindings(sketch)
    /\ sensorValue = NoValue
    /\ serial = [open |-> FALSE, baud |-> 0, begins |-> 0]
    /\ now = 0
    /\ trace = <<>>

\* setup(): Serial.begin(9600)
Setup ==
    /\ pc = "setup"
    /\ serial' = SerialBegin(serial, Baud)
    /\ pc' = LoopEntry(sketch)
    /\ UNCHANGED <<sketch, sensorPin, sensorValue, now, trace>>

-----------------------------------------------------------------------------
(* Standalone sketch: loop() *)

\* int sensorValue = analogRead(sensorPin);
SA_Read(S, W) ==
    /\ sketch = "standalone" /\ pc = "read"
    /\ \E v \in S :
          /\ sensorValue' = v
          /\ trace' = Append(Window(W), ReadEv("water", sensorPin, v, Clock(W)))
    /\ now' = Clock(W)
    /\ pc' = "classify"
    /\ UNCHANGED <<sketch, sensorPin, serial>>

\* if (sensorValue > 10) println("rain") else println("no rain")
SA_Print ==
    /\ sketch = "standalone" /\ pc = "classify"
    /\ trace' = Println(trace, "water", Classify(sensorValue), now)
    /\ pc' = "delay"
    /\ UNCHANGED <<sketch, sensorPin, sensorValue, serial, now>>

\* delay(500); end of loop()
SA_Delay ==
    /\ sketch = "standalone" /\ pc = "delay"
    /\ now' = Elapse(now, WaterDelayMs)
    /\ trace' = Append(trace, DelayEv("water", WaterDelayMs, now'))
    /\ sensorValue' = EndOfScope(sensorValue)
    /\ pc' = AfterLoop(sketch)
    /\ UNCHANGED <<sketch, sensorPin, serial>>

-----------------------------------------------------------------------------
(* Combined sketch: loop() *)

\* int sensorValue = analogRead(sensorPin);     (photoresistor code)
CB_PhotoRead(S, W) ==
    /\ sketch = "combined" /\ pc = "photoRead"
    /\ \E v \in S :
          /\ sensorValue' = v
          /\ trace' = Append(Window(W), ReadEv("photo", sensorPin, v, Clock(W)))
    /\ now' = Clock(W)
    /\ pc' = "photoPrint"
    /\ UNCHANGED <<sketch, sensorPin, serial>>

\* Serial.println(sensorValue);
CB_PhotoPrint ==
    /\ sketch = "combined" /\ pc = "photoPrint"
    /\ trace' = Println(trace, "photo", PrintInt(sensorValue), now)
    /\ pc' = "photoDelay"
    /\ UNCHANGED <<sketch, sensorPin, sensorValue, serial, now>>

\* delay(100);
CB_PhotoDelay ==
    /\ sketch = "combined" /\ pc = "photoDelay"
    /\ now' = Elapse(now, PhotoDelayMs)
    /\ trace' = Append(trace, DelayEv("photo", PhotoDelayMs, now'))
    /\ pc' = "waterRead"
    /\ UNCHANGED <<sketch, sensorPin, sensorValue, serial>>

\* int sensorValue = analogRead(sensorPin);     (water level detector code)
CB_WaterRead(S, W) ==
    /\ sketch = "combined" /\ pc = "waterRead"
    /\ \E v \in S :
          /\ sensorValue' = v
          /\ trace' = Append(Window(W), ReadEv("water", sensorPin, v, Clock(W)))
    /\ now' = Clock(W)
    /\ pc' = "waterPrint"
    /\ UNCHANGED <<sketch, sensorPin, serial>>

\* if (sensorValue > 10) println("rain") else println("no rain")
CB_WaterPrint ==
    /\ sketch = "combined" /\ pc = "waterPrint"
    /\ trace' = Println(trace, "water", Classify(sensorValue), now)
    /\ pc' = "waterDelay"
    /\ UNCHANGED <<sketch, sensorPin, sensorValue, serial, now>>

\* delay(500); end of loop()
CB_WaterDelay ==
    /\ sketch = "combined" /\ pc = "waterDelay"
    /\ now' = Elapse(now, WaterDelayMs)
    /\ trace' = Append(trace, DelayEv("water", WaterDelayMs, now'))
    /\ sensorValue' = EndOfScope(sensorValue)
    /\ pc' = AfterLoop(sketch)
    /\ UNCHANGED <<sketch, sensorPin, serial>>

-----------------------------------------------------------------------------
(* Specifications *)

\* whole runs: MaxIter iterations observed, readings from Samples
Next ==
    \/ Setup
    \/ SA_Read(Samples, MaxIter)
    \/ SA_Print
    \/ SA_Delay
    \/ CB_PhotoRead(Samples, MaxIter)
    \/ CB_PhotoPrint
    \/ CB_PhotoDelay
    \/ CB_WaterRead(Samples, MaxIter)
    \/ CB_WaterPrint
    \/ CB_WaterDelay

Spec == Init /\ [][Next]_vars

\* the single control flow always takes its next step
LiveSpec == Init /\ [][Next]_vars /\ WF_vars(Next)

\* every reading of the ADC range: one read-report-delay step observed
NextFull ==
    \/ Setup
    \/ SA_Read(ADCRange, 0)
    \/ SA_Print
    \/ SA_Delay
    \/ CB_PhotoRead(ADCRange, 0)
    \/ CB_PhotoPrint
    \/ CB_PhotoDelay
    \/ CB_WaterRead(ADCRange, 0)
    \/ CB_WaterPrint
    \/ CB_WaterDelay

SpecFull == Init /\ [][NextFull]_vars

-----------------------------------------------------------------------------
(* Observations on the trace *)

IsRead(e) == e.ev = "read"

IsLine(e) == e.ev = "line"

IsDelay(e) == e.ev = "delay"

ReadsOf(st) == SelectSeq(trace, LAMBDA e : IsRead(e) /\ e.step = st)

LinesOf(st) == SelectSeq(trace, LAMBDA e : IsLine(e) /\ e.step = st)

\* iterations of loop() completed in the window: loop() ends with delay(500)
Completed == Len(SelectSeq(trace, LAMBDA e : IsDelay(e) /\ e.step = "water"))

Sensors == IF sketch = "standalone" THEN {"water"} ELSE {"photo", "water"}

\* the line of sensor st has been written in the iteration under way
Printed(st) ==
    IF st = "photo"
    THEN pc \in {"photoDelay", "waterRead", "waterPrint", "waterDelay"}
    ELSE pc \in {"delay", "waterDelay"}

AtLoopEntry == pc \in {"read", "photoRead"}

JustEmitted == trace # <<>> /\ IsLine(trace[Len(trace)])

DigitValue(c) == CHOOSE d \in 0..9 : Digit(d) = c

IsDigit(c) == \E d \in 0..9 : Digit(d) = c

RECURSIVE ParseDecimal(_)
ParseDecimal(txt) ==
    IF txt = <<>> THEN 0
    ELSE 10 * ParseDecimal(SubSeq(txt, 1, Len(txt) - 1)) + DigitValue(txt[Len(txt)])

-----------------------------------------------------------------------------
(* Claims *)

\* C1: every water-level line is written for the reading taken just before
\* it, a value in 0..1023, and is "rain" iff that reading is > 10 and
\* "no rain" iff it is <= 10, in both sketches.
C1_StrictThreshold ==
    \A i \in 1..Len(trace) :
        (IsLine(trace[i]) /\ trace[i].step = "water") =>
            /\ i > 1
            /\ IsRead(trace[i-1])
            /\ trace[i-1].value \in 0..1023
            /\ (trace[i].text = RainText <=> trace[i-1].value > 10)
            /\ (trace[i].text = NoRainText <=> trace[i-1].value <= 10)

C1_Witness ==
    /\ sketch = "combined"
    /\ \E i \in 2..Len(trace) :
          /\ IsLine(trace[i]) /\ trace[i].step = "water"
          /\ trace[i-1].value = 10
          /\ trace[i].text = NoRainText

\* C2: every photoresistor line is the decimal representation (digits only,
\* no leading zero) of the value read just before it.
C2_RawIsDecimal ==
    \A i \in 1..Len(trace) :
        (IsLine(trace[i]) /\ trace[i].step = "photo") =>
            /\ i > 1
            /\ IsRead(trace[i-1])
            /\ trace[i-1].step = "photo"
            /\ Len(trace[i].text) >= 1
            /\ \A k \in 1..Len(trace[i].text) : IsDigit(trace[i].text[k])
            /\ (Len(trace[i].text) > 1 => trace[i].text[1] # "0")
            /\ ParseDecimal(trace[i].text) = trace[i-1].value

C2_Witness ==
    \E i \in 2..Len(trace) :
        /\ IsLine(trace[i]) /\ trace[i].step = "photo"
        /\ trace[i-1].value = 512
        /\ trace[i].text = <<"5", "1", "2">>

\* C3: for each sensor of the sketch, the number of its lines is the number
\* of completed iterations, plus one once its line of the iteration under
\* way has been written: one line per sensor per iteration, never none,
\* never two.
C3_OneLinePerSensor ==
    \A st \in Sensors :
        Len(LinesOf(st)) = Completed + (IF Printed(st) THEN 1 ELSE 0)

C3_Witness ==
    /\ Completed >= 2
    /\ ReadsOf("water")[1].value = ReadsOf("water")[2].value
    /\ LinesOf("water")[1].text = LinesOf("water")[2].text
    /\ Len(LinesOf("water")) >= 2

\* C4: the loop never terminates: loop() is entered again and again, and
\* every entry is followed by an output line.
C4_NeverTerminates ==
    /\ []<>AtLoopEntry
    /\ (AtLoopEntry ~> JustEmitted)

C4_Witness == Completed >= 2 /\ JustEmitted

\* C5: in the combined sketch the trace of each iteration k is, in order,
\* photo read and raw line at 600k, the 100 ms delay ending at 600k + 100,
\* water read and classification line at 600k + 100, the 500 ms delay ending
\* at 600(k+1): the steps are sequential and the lines alternate.
C5_SerialSteps ==
    sketch = "combined" =>
        \A i \in 1..Len(trace) :
            LET k == (i - 1) \div 6
                j == (i - 1) % 6
                e == trace[i]
            IN  /\ e.step = (IF j < 3 THEN "photo" ELSE "water")
                /\ e.ev = <<"read", "line", "delay">>[(j % 3) + 1]
                /\ e.t = 600 * k + <<0, 0, 100, 100, 100, 600>>[j + 1]

C5_Witness ==
    /\ sketch = "combined"
    /\ Completed >= 2
    /\ ReadsOf("photo")[2].t - ReadsOf("photo")[1].t = 600
    /\ ReadsOf("water")[2].t - ReadsOf("water")[1].t = 600

\* C6: every delay follows a line, lasts 500 ms after a water-level line
\* ("rain" or "no rain") and 100 ms after a raw line, and ends that long
\* after the line.
C6_ConstantDelay ==
    \A i \in 1..Len(trace) :
        IsDelay(trace[i]) =>
            /\ i > 1
            /\ IsLine(trace[i-1])
            /\ trace[i].ms = (IF trace[i-1].step = "water" THEN 500 ELSE 100)
            /\ trace[i].t = trace[i-1].t + trace[i].ms

C6_Witness ==
    /\ \E i \in 2..Len(trace) :
          IsDelay(trace[i]) /\ trace[i-1].text = RainText /\ trace[i].ms = 500
    /\ \E i \in 2..Len(trace) :
          IsDelay(trace[i]) /\ trace[i-1].text = NoRainText /\ trace[i].ms = 500
    /\ \E i \in 2..Len(trace) :
          IsDelay(trace[i]) /\ trace[i-1].step = "photo" /\ trace[i].ms = 100

\* C7: the sequence of classification lines is the pointwise classification
\* of the sequence of water-level readings, in the same order.
C7_Pointwise ==
    LET R == ReadsOf("water")
        L == LinesOf("water")
    IN  /\ Len(L) \in {Len(R), Len(R) - 1}
        /\ \A k \in 1..Len(L) :
              L[k].text = (IF R[k].value > 10 THEN RainText ELSE NoRainText)

C7_Witness ==
    LET R == ReadsOf("water")
        L == LinesOf("water")
    IN  /\ Len(L) = 3
        /\ <<R[1].value, R[2].value, R[3].value>> = <<5, 15, 10>>
        /\ <<L[1].text, L[2].text, L[3].text>> = <<NoRainText, RainText, NoRainText>>

\* C8: before setup() has run nothing is read or written and the port is
\* closed; from then on the port is open at 9600 baud and has been opened
\* exactly once.
C8_InitOnceFirst ==
    /\ pc = "setup" => (serial.begins = 0 /\ ~serial.open /\ trace = <<>>)
    /\ pc # "setup" => (serial.begins = 1 /\ serial.open /\ serial.baud = 9600)

C8_Witness == Completed >= 2 /\ serial.begins = 1

\* C9: in the combined sketch the photoresistor step reads pin A1 and the
\* water-level step reads pin A2.
C9_DistinctChannels ==
    sketch = "combined" =>
        \A i \in 1..Len(trace) :
            IsRead(trace[i]) =>
                trace[i].pin = (IF trace[i].step = "photo" THEN "A1" ELSE "A2")

\* C10: no step changes the pin binding or, after setup(), the port; every
\* read targets the pin bound at start; a water-level line is decided by the
\* boundary 10; and when loop() is entered again sensorValue is gone.
C10_NothingSurvives ==
    [][ /\ sensorPin' = sensorPin
        /\ sketch' = sketch
        /\ (pc # "setup" => serial' = serial)
        /\ (\A i \in 1..Len(trace') : IsRead(trace'[i]) => trace'[i].pin = sensorPin)
        /\ (pc \in {"classify", "waterPrint"} =>
               (trace'[Len(trace')].text = RainText <=> sensorValue > 10))
        /\ (pc' \in {"read", "photoRead"} => sensorValue' = NoValue)
      ]_vars

C10_Witness == AtLoopEntry /\ Completed >= 2 /\ sensorValue = NoValue

====
